---- MODULE Spec2Model ----
(***************************************************************************)
(* Model of the pygame client in src/main.py: the frame loop (main), the   *)
(* input handler (InputHandler) and the renderer (Renderer).               *)
(*                                                                         *)
(* Python floats are modelled as IEEE-754 binary64 numbers: every          *)
(* arithmetic operation rounds its exact result to the nearest double,     *)
(* ties to even, and int() truncates the double toward zero.  math.cos and *)
(* math.sin are the doubles the C library returns for the angles the code  *)
(* passes.  The numbers of the model stay far from overflow, underflow and *)
(* the sign of zero.  The engine (game_engine) is an external              *)
(* collaborator: the model records the calls made on it.                   *)
(***************************************************************************)
EXTENDS Integers, Sequences, FiniteSets, TLC

\* ------------------------------------------------------------------ bounds
MaxEvents == 2      \* events delivered by pygame.event.get() in one tick
MaxHeld == 2        \* keys / mouse buttons physically held at the same time
MaxDim == 2         \* a resize may request the widths 160, 320, ..., 160 * MaxDim
MaxStars == 2       \* stars in a snapshot
MaxProjectiles == 1 \* projectiles in a snapshot

\* --------------------------------------------------------------- constants
BASE_WIDTH == 800
BASE_HEIGHT == 600
FPS == 60

\* ------------------------------------------------------------------ floats
\* A Python float is an IEEE-754 binary64 number: s * m * 2^e with sign s,
\* 2^52 <= m < 2^53, or zero; every operation rounds its exact result to the
\* nearest such number, ties to the even mantissa.  A mantissa and the wider
\* intermediate results are written in base B = 2^14, least significant digit
\* first, so that no digit operation leaves the 32-bit integers.
B == 16384
LimbBits == 14
Pow2 == <<1, 2, 4, 8, 16, 32, 64, 128, 256, 512, 1024, 2048, 4096, 8192, 16384>>

\* digit j of t (0 outside t)
Limb(t, j) == IF j >= 1 /\ j <= Len(t) THEN t[j] ELSE 0

\* the LimbBits bits of t from bit pos on (bit 0 is the least significant)
Window(t, pos) ==
    (Limb(t, (pos \div LimbBits) + 1) \div Pow2[(pos % LimbBits) + 1])
    + (Limb(t, (pos \div LimbBits) + 2) % Pow2[(pos % LimbBits) + 1]) * Pow2[LimbBits - (pos % LimbBits) + 1]

\* the len low digits of t \div 2^d (of t * 2^(-d) for d < 0)
RECURSIVE Shifted(_, _, _)
Shifted(t, d, len) ==
    IF len = 0 THEN <<>> ELSE <<Window(t, d)>> \o Shifted(t, d + LimbBits, len - 1)

\* the number of bits of a digit x
IntBits(x) ==
    IF x < 128
    THEN IF x < 8 THEN (IF x < 2 THEN x ELSE IF x < 4 THEN 2 ELSE 3)
         ELSE IF x < 32 THEN (IF x < 16 THEN 4 ELSE 5)
         ELSE IF x < 64 THEN 6 ELSE 7
    ELSE IF x < 2048 THEN (IF x < 512 THEN (IF x < 256 THEN 8 ELSE 9)
                           ELSE IF x < 1024 THEN 10 ELSE 11)
         ELSE IF x < 8192 THEN (IF x < 4096 THEN 12 ELSE 13)
         ELSE 14

\* the number of bits of the j low digits of t
RECURSIVE Bits(_, _)
Bits(t, j) ==
    IF j = 0 THEN 0
    ELSE IF t[j] # 0 THEN LimbBits * (j - 1) + IntBits(t[j])
    ELSE Bits(t, j - 1)

\* whether t % 2^n is not 0
LowNonzero(t, n) ==
    \/ \E i \in 1..(n \div LimbBits) : t[i] # 0
    \/ Limb(t, (n \div LimbBits) + 1) % Pow2[(n % LimbBits) + 1] # 0

Precision == 53
FZero == [s |-> 0, e |-> 0, m |-> <<0, 0, 0, 0>>]

\* m + 1 for a mantissa m; 2^53 becomes 2^52 with the exponent raised by one
FBump(sign, m, e) ==
    LET x1 == m[1] + 1
        x2 == m[2] + x1 \div B
        x3 == m[3] + x2 \div B
        x4 == m[4] + x3 \div B
    IN  IF x4 = 2048 THEN [s |-> sign, e |-> e + 1, m |-> <<0, 0, 0, 1024>>]
        ELSE [s |-> sign, e |-> e, m |-> <<x1 % B, x2 % B, x3 % B, x4>>]

\* the float nearest to sign * t * 2^(e - d) for an 8-digit t of d + 53 bits,
\* q being t \div 2^d: rounded up when the cut-off part is more than half of
\* the last bit, or half of it and q is odd
FRoundCut(sign, t, e, sticky, d, q) ==
    IF d > 0 /\ Window(t, d - 1) % 2 = 1 /\ (q[1] % 2 = 1 \/ sticky \/ LowNonzero(t, d - 1))
    THEN FBump(sign, q, e)
    ELSE [s |-> sign, e |-> e, m |-> q]

\* the float nearest to sign * t * 2^e for an 8-digit t of n bits
FRoundBits(sign, t, e, sticky, n) ==
    IF n = 0 THEN FZero
    ELSE FRoundCut(sign, t, e + n - Precision, sticky, n - Precision, Shifted(t, n - Precision, 4))

\* the float nearest to sign * t * 2^e for an 8-digit t (sticky: a non-zero
\* part below t was cut off)
FRound(sign, t, e, sticky) == FRoundBits(sign, t, e, sticky, Bits(t, 8))

\* the digits of an int a >= 0
IntDigits(a) == <<a % B, (a \div B) % B, a \div (B * B), 0, 0, 0, 0, 0>>

\* float(n) for an int n
F(n) == FRound(IF n < 0 THEN -1 ELSE 1, IntDigits(IF n < 0 THEN -n ELSE n), 0, FALSE)

FNeg(a) == [a EXCEPT !.s = -a.s]

\* x * y for 4-digit x and y: 8 digits
Product(x, y) ==
    LET c1 == x[1] * y[1]
        c2 == x[1] * y[2] + x[2] * y[1] + c1 \div B
        c3 == x[1] * y[3] + x[2] * y[2] + x[3] * y[1] + c2 \div B
        c4 == x[1] * y[4] + x[2] * y[3] + x[3] * y[2] + x[4] * y[1] + c3 \div B
        c5 == x[2] * y[4] + x[3] * y[3] + x[4] * y[2] + c4 \div B
        c6 == x[3] * y[4] + x[4] * y[3] + c5 \div B
        c7 == x[4] * y[4] + c6 \div B
    IN  <<c1 % B, c2 % B, c3 % B, c4 % B, c5 % B, c6 % B, c7 % B, c7 \div B>>

\* a * b
FMul(a, b) ==
    IF a.s = 0 \/ b.s = 0 THEN FZero
    ELSE FRound(a.s * b.s, Product(a.m, b.m), a.e + b.e, FALSE)

\* x + y for 8-digit x and y
Sum(x, y) ==
    LET c1 == x[1] + y[1]
        c2 == x[2] + y[2] + c1 \div B
        c3 == x[3] + y[3] + c2 \div B
        c4 == x[4] + y[4] + c3 \div B
        c5 == x[5] + y[5] + c4 \div B
        c6 == x[6] + y[6] + c5 \div B
        c7 == x[7] + y[7] + c6 \div B
        c8 == x[8] + y[8] + c7 \div B
    IN  <<c1 % B, c2 % B, c3 % B, c4 % B, c5 % B, c6 % B, c7 % B, c8>>

\* x - y for 8-digit x and y: the digits and the sign (neg when x < y)
Diff(x, y) ==
    LET d1 == x[1] - y[1]
        d2 == x[2] - y[2] + d1 \div B
        d3 == x[3] - y[3] + d2 \div B
        d4 == x[4] - y[4] + d3 \div B
        d5 == x[5] - y[5] + d4 \div B
        d6 == x[6] - y[6] + d5 \div B
        d7 == x[7] - y[7] + d6 \div B
        d8 == x[8] - y[8] + d7 \div B
    IN  [neg |-> d8 < 0, t |-> <<d1 % B, d2 % B, d3 % B, d4 % B, d5 % B, d6 % B, d7 % B, d8 % B>>]

\* the digits of |x - y|, xy being Diff(x, y)
Distance(x, y, xy) == IF xy.neg THEN Diff(y, x).t ELSE xy.t

\* sa * x + sb * y for 8-digit x and y, scaled by 2^e; xy is Diff(x, y)
FAddDigits(sa, sb, x, y, e, xy) ==
    FRound(IF sa # sb /\ xy.neg THEN sb ELSE sa,
           IF sa = sb THEN Sum(x, y) ELSE Distance(x, y, xy), e, FALSE)

\* x and y aligned at the exponent e, then added
FAddAligned(sa, sb, x, y, e) == FAddDigits(sa, sb, x, y, e, Diff(x, y))

\* a + b for a.e >= b.e; beyond 54 bits of distance b is less than a quarter
\* of the last bit of a
FAddOrdered(a, b) ==
    IF a.e - b.e > 54 THEN a
    ELSE FAddAligned(a.s, b.s, Shifted(a.m, b.e - a.e, 8), Shifted(b.m, 0, 8), b.e)

\* a + b
FAdd(a, b) ==
    IF a.s = 0 THEN b
    ELSE IF b.s = 0 THEN a
    ELSE FAddOrdered(IF a.e >= b.e THEN a ELSE b, IF a.e >= b.e THEN b ELSE a)

\* a - b
FSub(a, b) == FAdd(a, FNeg(b))

\* q * v for a digit q and a 4-digit v: 5 digits
MulDigit(v, q) ==
    LET c1 == v[1] * q
        c2 == v[2] * q + c1 \div B
        c3 == v[3] * q + c2 \div B
        c4 == v[4] * q + c3 \div B
    IN  <<c1 % B, c2 % B, c3 % B, c4 % B, c4 \div B>>

\* r - p for 5-digit r and p: the digits and the sign
Diff5(r, p) ==
    LET d1 == r[1] - p[1]
        d2 == r[2] - p[2] + d1 \div B
        d3 == r[3] - p[3] + d2 \div B
        d4 == r[4] - p[4] + d3 \div B
        d5 == r[5] - p[5] + d4 \div B
    IN  [neg |-> d5 < 0, t |-> <<d1 % B, d2 % B, d3 % B, d4 % B, d5 % B>>]

\* one digit of a long division: the largest q <= est with q * v <= r, and
\* the remainder r - q * v; rest is r - est * v
RECURSIVE DivDigit(_, _, _)
DivTry(r, v, est, rest) ==
    IF rest.neg THEN DivDigit(r, v, est - 1) ELSE [q |-> est, r |-> rest.t]

DivDigit(r, v, est) == DivTry(r, v, est, Diff5(r, MulDigit(v, est)))

\* a guess of a digit, at most B - 1
DigitMax(est) == IF est > B - 1 THEN B - 1 ELSE est

\* the digit r \div v and r % v for r < v * B, the top digit of v at least B / 2
DivStep(r, v) == DivDigit(r, v, DigitMax((r[5] * B + r[4]) \div v[4]))

\* k more digits of the long division by v, u being the dividend of the next
\* step and qs the digits found (least significant first): the 8 digits of
\* the quotient and whether a remainder is left
RECURSIVE DivSteps(_, _, _, _)
\* after a step: when nothing is left the remaining digits are 0, otherwise
\* a zero digit is brought down
DivBringDown(step, v, k, qs) ==
    IF step.r = <<0, 0, 0, 0, 0>>
    THEN [q |-> SubSeq(<<0, 0, 0, 0>>, 1, k - 1) \o <<step.q>> \o qs \o <<0, 0, 0>>,
          inexact |-> FALSE]
    ELSE DivSteps(<<0, step.r[1], step.r[2], step.r[3], step.r[4]>>, v, k - 1, <<step.q>> \o qs)

DivSteps(u, v, k, qs) ==
    IF k = 0 THEN [q |-> qs \o <<0, 0, 0>>, inexact |-> TRUE]
    ELSE DivBringDown(DivStep(u, v), v, k, qs)

\* the float of a quotient
FQuotient(sign, e, quot) == FRound(sign, quot.q, e, quot.inexact)

\* a / b: the long division of a.m * 2^56 by b.m, both scaled by 8 to bring
\* the top digit of the divisor to B / 2 or more; a zero divisor fails in the
\* division of the digits, as the ZeroDivisionError of Python
FDiv(a, b) ==
    IF b.s # 0 /\ a.s = 0 THEN FZero
    ELSE FQuotient(a.s * b.s, a.e - b.e - 56,
                   DivSteps(Shifted(a.m, -3, 5), Shifted(b.m, -3, 4), 5, <<>>))

\* the integer of the 3 digits t
IntOf(t) == t[1] + B * t[2] + B * B * t[3]

\* int(a): truncation toward zero, for |a| < 2^31
FInt(a) == IF a.e <= -Precision THEN 0 ELSE a.s * IntOf(Shifted(a.m, -a.e, 3))

\* a < b
FLt(a, b) == FSub(a, b).s < 0

\* |a|
FAbs(a) == [a EXCEPT !.s = IF a.s = 0 THEN 0 ELSE 1]

\* the float a quotient n / d of two ints is
Lit(n, d) == FDiv(F(n), F(d))

\* the floats the decimal literals of the source denote
Lit_0_5 == [s |-> 1, e |-> -53, m |-> <<0, 0, 0, 1024>>]
Lit_1_5 == [s |-> 1, e |-> -52, m |-> <<0, 0, 0, 1536>>]
Lit_0_4 == [s |-> 1, e |-> -54, m |-> <<6554, 9830, 6553, 1638>>]
Lit_0_9 == [s |-> 1, e |-> -53, m |-> <<3277, 13107, 3276, 1843>>]
Lit_7_5 == [s |-> 1, e |-> -50, m |-> <<0, 0, 0, 1920>>]
Lit_10_0 == [s |-> 1, e |-> -49, m |-> <<0, 0, 0, 1280>>]
Lit_0_0 == FZero
\* 4 / 3 and the int 36 as doubles
Lit_4_3 == [s |-> 1, e |-> -52, m |-> <<5461, 5461, 5461, 1365>>]
Lit_36 == [s |-> 1, e |-> -47, m |-> <<0, 0, 0, 1152>>]

\* Python round(a) and the digits format(a, ".0f") prints: the nearest
\* integer, a tie going to the even one
round(a) ==
    LET t == FInt(a)
        frac == FAbs(FSub(a, F(t)))
        away == t + a.s
    IN  IF FLt(Lit_0_5, frac) THEN away
        ELSE IF FLt(frac, Lit_0_5) THEN t
        ELSE IF t % 2 = 0 THEN t ELSE away

\* math.pi = 3.141592653589793
math_pi == [s |-> 1, e |-> -51, m |-> <<11544, 4368, 8117, 1608>>]

\* math.cos(q * math.pi / 2) and math.sin(q * math.pi / 2) for |q| = 0, 1, 2, 3, 4,
\* as the C library returns them: 1.0, 6.123233995736766e-17, -1.0, -1.8369701987210297e-16, 1.0 and
\* 0.0, 1.0, 1.2246467991473532e-16, -1.0, -2.4492935982947064e-16
QuarterCos ==
    <<[s |-> 1, e |-> -52, m |-> <<0, 0, 0, 1024>>],
      [s |-> 1, e |-> -106, m |-> <<7175, 3153, 8803, 1129>>],
      [s |-> -1, e |-> -52, m |-> <<0, 0, 0, 1024>>],
      [s |-> -1, e |-> -105, m |-> <<2570, 12922, 5012, 1694>>],
      [s |-> 1, e |-> -52, m |-> <<0, 0, 0, 1024>>]>>
QuarterSin ==
    <<FZero,
      [s |-> 1, e |-> -52, m |-> <<0, 0, 0, 1024>>],
      [s |-> 1, e |-> -105, m |-> <<7175, 3153, 8803, 1129>>],
      [s |-> -1, e |-> -52, m |-> <<0, 0, 0, 1024>>],
      [s |-> -1, e |-> -104, m |-> <<7175, 3153, 8803, 1129>>]>>

\* draw_star, four_point: for i = 0..3, math.cos and math.sin of
\* angle = (i * math.pi / 2) - math.pi / 4 and of inner_angle = angle + math.pi / 4
FourPointAngles ==
    <<[outer_cos |-> [s |-> 1, e |-> -53, m |-> <<15309, 6652, 2534, 1448>>],
       outer_sin |-> [s |-> -1, e |-> -53, m |-> <<15308, 6652, 2534, 1448>>],
       inner_cos |-> [s |-> 1, e |-> -52, m |-> <<0, 0, 0, 1024>>],
       inner_sin |-> FZero],
      [outer_cos |-> [s |-> 1, e |-> -53, m |-> <<15309, 6652, 2534, 1448>>],
       outer_sin |-> [s |-> 1, e |-> -53, m |-> <<15308, 6652, 2534, 1448>>],
       inner_cos |-> [s |-> 1, e |-> -106, m |-> <<7175, 3153, 8803, 1129>>],
       inner_sin |-> [s |-> 1, e |-> -52, m |-> <<0, 0, 0, 1024>>]],
      [outer_cos |-> [s |-> -1, e |-> -53, m |-> <<15308, 6652, 2534, 1448>>],
       outer_sin |-> [s |-> 1, e |-> -53, m |-> <<15309, 6652, 2534, 1448>>],
       inner_cos |-> [s |-> -1, e |-> -52, m |-> <<0, 0, 0, 1024>>],
       inner_sin |-> [s |-> 1, e |-> -105, m |-> <<7175, 3153, 8803, 1129>>]],
      [outer_cos |-> [s |-> -1, e |-> -53, m |-> <<15310, 6652, 2534, 1448>>],
       outer_sin |-> [s |-> -1, e |-> -53, m |-> <<15308, 6652, 2534, 1448>>],
       inner_cos |-> [s |-> -1, e |-> -105, m |-> <<2570, 12922, 5012, 1694>>],
       inner_sin |-> [s |-> -1, e |-> -52, m |-> <<0, 0, 0, 1024>>]]>>

\* draw_star, six_point: for i = 0..5, math.cos and math.sin of
\* angle = (i * math.pi / 3) - math.pi / 6 and of inner_angle = angle + math.pi / 6
SixPointAngles ==
    <<[outer_cos |-> [s |-> 1, e |-> -53, m |-> <<3243, 8545, 10158, 1773>>],
       outer_sin |-> [s |-> -1, e |-> -54, m |-> <<16383, 16383, 16383, 2047>>],
       inner_cos |-> [s |-> 1, e |-> -52, m |-> <<0, 0, 0, 1024>>],
       inner_sin |-> FZero],
      [outer_cos |-> [s |-> 1, e |-> -53, m |-> <<3243, 8545, 10158, 1773>>],
       outer_sin |-> [s |-> 1, e |-> -54, m |-> <<16383, 16383, 16383, 2047>>],
       inner_cos |-> [s |-> 1, e |-> -53, m |-> <<1, 0, 0, 1024>>],
       inner_sin |-> [s |-> 1, e |-> -53, m |-> <<3242, 8545, 10158, 1773>>]],
      [outer_cos |-> [s |-> 1, e |-> -106, m |-> <<7175, 3153, 8803, 1129>>],
       outer_sin |-> [s |-> 1, e |-> -52, m |-> <<0, 0, 0, 1024>>],
       inner_cos |-> [s |-> -1, e |-> -54, m |-> <<16380, 16383, 16383, 2047>>],
       inner_sin |-> [s |-> 1, e |-> -53, m |-> <<3243, 8545, 10158, 1773>>]],
      [outer_cos |-> [s |-> -1, e |-> -53, m |-> <<3243, 8545, 10158, 1773>>],
       outer_sin |-> [s |-> 1, e |-> -54, m |-> <<16383, 16383, 16383, 2047>>],
       inner_cos |-> [s |-> -1, e |-> -52, m |-> <<0, 0, 0, 1024>>],
       inner_sin |-> [s |-> 1, e |-> -105, m |-> <<7175, 3153, 8803, 1129>>]],
      [outer_cos |-> [s |-> -1, e |-> -53, m |-> <<3244, 8545, 10158, 1773>>],
       outer_sin |-> [s |-> -1, e |-> -54, m |-> <<16379, 16383, 16383, 2047>>],
       inner_cos |-> [s |-> -1, e |-> -53, m |-> <<4, 0, 0, 1024>>],
       inner_sin |-> [s |-> -1, e |-> -53, m |-> <<3240, 8545, 10158, 1773>>]],
      [outer_cos |-> [s |-> -1, e |-> -105, m |-> <<2570, 12922, 5012, 1694>>],
       outer_sin |-> [s |-> -1, e |-> -52, m |-> <<0, 0, 0, 1024>>],
       inner_cos |-> [s |-> 1, e |-> -53, m |-> <<1, 0, 0, 1024>>],
       inner_sin |-> [s |-> -1, e |-> -53, m |-> <<3242, 8545, 10158, 1773>>]]>>

\* Angles are whole quarter turns: the angle q stands for the float
\* q * math.pi / 2, so -1 is -math.pi / 2, "pointing up".  math.cos and
\* math.sin of it (cos is even and sin is odd in the C library too):
Cos(q) == IF q < 0 THEN QuarterCos[1 - q] ELSE QuarterCos[q + 1]
Sin(q) == IF q < 0 THEN FNeg(QuarterSin[1 - q]) ELSE QuarterSin[q + 1]

\* ------------------------------------------------------------------ events
MoveKeys == {"K_w", "K_UP", "K_s", "K_DOWN", "K_a", "K_LEFT", "K_d", "K_RIGHT"}
ModKeys == {"K_LALT", "K_RALT", "K_LSHIFT", "K_RSHIFT", "K_LCTRL", "K_RCTRL"}
Keys == MoveKeys \cup ModKeys \cup {"K_SPACE", "K_ESCAPE", "K_x"}
Buttons == {1, 3}

Event(t, k, b, p, w, h) == [type |-> t, key |-> k, button |-> b, pos |-> p, w |-> w, h |-> h]
QuitEvent == Event("QUIT", "", 0, <<0, 0>>, 0, 0)
KeyDown(k) == Event("KEYDOWN", k, 0, <<0, 0>>, 0, 0)
KeyUp(k) == Event("KEYUP", k, 0, <<0, 0>>, 0, 0)
MouseDown(b) == Event("MOUSEBUTTONDOWN", "", b, <<0, 0>>, 0, 0)
MouseUp(b) == Event("MOUSEBUTTONUP", "", b, <<0, 0>>, 0, 0)
MouseMotion(p) == Event("MOUSEMOTION", "", 0, p, 0, 0)
VideoResize(w, h) == Event("VIDEORESIZE", "", 0, <<0, 0>>, w, h)

\* ------------------------------------------------------------ engine calls
Call(op, arg, val) == [op |-> op, arg |-> arg, val |-> val]
send_command(name) == Call("send_command", name, <<>>)
set_mouse_target(x, y) == Call("set_mouse_target", "", <<x, y>>)
start_autofire == Call("start_autofire", "", <<>>)
stop_autofire == Call("stop_autofire", "", <<>>)
start_shooting_tracking == Call("start_shooting_tracking", "", <<>>)
stop_shooting_tracking == Call("stop_shooting_tracking", "", <<>>)
set_alt_mode(b) == Call("set_alt_mode", IF b THEN "True" ELSE "False", <<>>)
set_boost_mode(b) == Call("set_boost_mode", IF b THEN "True" ELSE "False", <<>>)
set_control_mode(b) == Call("set_control_mode", IF b THEN "True" ELSE "False", <<>>)
\* game_engine.update(dt) with dt = clock.tick(FPS) / 1000.0 for a tick of ms milliseconds
update(ms) == Call("update", "", <<FDiv(F(ms), F(1000))>>)
get_render_data == Call("get_render_data", "", <<>>)


\* ---------------------------------------------------------------- Renderer
\* Renderer.__init__: the scale factor and font size of a screen of the given size
Renderer(w, h) ==
    LET sf == FDiv(F(w), F(BASE_WIDTH))
    IN  [screen |-> <<w, h>>, base_width |-> BASE_WIDTH, base_height |-> BASE_HEIGHT,
         scale_factor |-> sf, font |-> FInt(FMul(Lit_36, sf))]

\* get_max_window_size for a monitor of mw x mh pixels
get_max_window_size(mw, mh) ==
    LET monitor_width == F(mw)
        monitor_height == F(mh)
        aspect_ratio == Lit_4_3
        wide == FLt(aspect_ratio, FDiv(monitor_width, monitor_height))
        window_height == IF wide THEN FMul(monitor_height, Lit_0_9)
                         ELSE FDiv(FMul(monitor_width, Lit_0_9), aspect_ratio)
        window_width == IF wide THEN FMul(FMul(monitor_height, Lit_0_9), aspect_ratio)
                        ELSE FMul(monitor_width, Lit_0_9)
    IN  <<FInt(window_width), FInt(window_height)>>

\* a resize that corrects the wrong dimension: the width when the request is
\* too wide, the height when it is too tall
handle_resize_swapped(r, e) ==
    IF e.type # "VIDEORESIZE" THEN r
    ELSE
    LET w == F(e.w)
        h == F(e.h)
        actual_ratio == FDiv(w, h)
        target_ratio == Lit_4_3
        too_wide == FLt(target_ratio, actual_ratio)
        too_tall == ~too_wide /\ FLt(actual_ratio, target_ratio)
        new_width == IF too_wide THEN FMul(h, target_ratio) ELSE w
        new_height == IF too_tall THEN FDiv(w, target_ratio) ELSE h
        sf == FDiv(new_width, F(r.base_width))
    IN  [r EXCEPT !.screen = <<FInt(new_width), FInt(new_height)>>,
                  !.scale_factor = sf,
                  !.font = FInt(FMul(Lit_36, sf))]

\* Renderer.handle_resize
handle_resize(r, e) ==
    IF e.type # "VIDEORESIZE" THEN r
    ELSE
    LET w == F(e.w)
        h == F(e.h)
        actual_ratio == FDiv(w, h)
        target_ratio == Lit_4_3
        too_wide == FLt(target_ratio, actual_ratio)
        too_tall == ~too_wide /\ FLt(actual_ratio, target_ratio)
        new_height == IF too_wide THEN FDiv(w, target_ratio) ELSE h
        new_width == IF too_tall THEN FMul(h, target_ratio) ELSE w
        sf == FDiv(new_width, F(r.base_width))
    IN  [r EXCEPT !.screen = <<FInt(new_width), FInt(new_height)>>,
                  !.scale_factor = sf,
                  !.font = FInt(FMul(Lit_36, sf))]

\* ------------------------------------------------------------ InputHandler
\* InputHandler.__init__
InputHandlerInit ==
    [w_pressed |-> FALSE, a_pressed |-> FALSE, s_pressed |-> FALSE, d_pressed |-> FALSE,
     alt_pressed |-> FALSE, shift_pressed |-> FALSE, ctrl_pressed |-> FALSE,
     space_pressed |-> FALSE, mouse_pos |-> <<0, 0>>, left_mouse_pressed |-> FALSE]

Result(h, cs) == [ih |-> h, calls |-> cs]

\* InputHandler._handle_key_down
handle_key_down(h, key) ==
    IF key \in {"K_w", "K_UP"} THEN Result([h EXCEPT !.w_pressed = TRUE], <<>>)
    ELSE IF key \in {"K_s", "K_DOWN"} THEN Result([h EXCEPT !.s_pressed = TRUE], <<>>)
    ELSE IF key \in {"K_a", "K_LEFT"} THEN Result([h EXCEPT !.a_pressed = TRUE], <<>>)
    ELSE IF key \in {"K_d", "K_RIGHT"} THEN Result([h EXCEPT !.d_pressed = TRUE], <<>>)
    ELSE IF key = "K_SPACE"
         THEN Result([h EXCEPT !.space_pressed = TRUE], <<start_autofire>>)
    ELSE IF key \in {"K_LALT", "K_RALT"}
         THEN Result([h EXCEPT !.alt_pressed = TRUE], <<set_alt_mode(TRUE)>>)
    ELSE IF key \in {"K_LSHIFT", "K_RSHIFT"}
         THEN Result([h EXCEPT !.shift_pressed = TRUE], <<set_boost_mode(TRUE)>>)
    ELSE IF key \in {"K_LCTRL", "K_RCTRL"}
         THEN Result([h EXCEPT !.ctrl_pressed = TRUE], <<set_control_mode(TRUE)>>)
    ELSE Result(h, <<>>)

\* a release of Space that leaves autofire on while the left mouse button is
\* still down (reference counting, which the handler does not do)
key_up_space_refcount(h) ==
    IF h.left_mouse_pressed THEN Result([h EXCEPT !.space_pressed = FALSE], <<>>)
    ELSE Result([h EXCEPT !.space_pressed = FALSE],
                <<stop_autofire, start_shooting_tracking, stop_shooting_tracking>>)

\* the K_SPACE branch of InputHandler._handle_key_up
key_up_space(h) ==
    Result([h EXCEPT !.space_pressed = FALSE],
           <<stop_autofire, start_shooting_tracking, stop_shooting_tracking>>)

\* InputHandler._handle_key_up
handle_key_up(h, key) ==
    IF key \in {"K_w", "K_UP"} THEN Result([h EXCEPT !.w_pressed = FALSE], <<>>)
    ELSE IF key \in {"K_s", "K_DOWN"} THEN Result([h EXCEPT !.s_pressed = FALSE], <<>>)
    ELSE IF key \in {"K_a", "K_LEFT"} THEN Result([h EXCEPT !.a_pressed = FALSE], <<>>)
    ELSE IF key \in {"K_d", "K_RIGHT"} THEN Result([h EXCEPT !.d_pressed = FALSE], <<>>)
    ELSE IF key = "K_SPACE" THEN key_up_space(h)
    ELSE IF key \in {"K_LALT", "K_RALT"}
         THEN Result([h EXCEPT !.alt_pressed = FALSE], <<set_alt_mode(FALSE)>>)
    ELSE IF key \in {"K_LSHIFT", "K_RSHIFT"}
         THEN Result([h EXCEPT !.shift_pressed = FALSE], <<set_boost_mode(FALSE)>>)
    ELSE IF key \in {"K_LCTRL", "K_RCTRL"}
         THEN Result([h EXCEPT !.ctrl_pressed = FALSE], <<set_control_mode(FALSE)>>)
    ELSE Result(h, <<>>)

\* the MOUSEMOTION branch of InputHandler.handle
handle_mouse_motion(h, r, e) ==
    LET scale == FDiv(F(r.screen[1]), F(r.base_width))
        scaled_x == FDiv(F(e.pos[1]), scale)
        scaled_y == FDiv(F(e.pos[2]), scale)
    IN  Result([h EXCEPT !.mouse_pos = e.pos], <<set_mouse_target(scaled_x, scaled_y)>>)

\* the MOUSEBUTTONDOWN branch of InputHandler.handle
handle_mouse_down(h, e) ==
    IF e.button = 1
    THEN Result([h EXCEPT !.left_mouse_pressed = TRUE], <<start_autofire>>)
    ELSE Result(h, <<>>)

\* a release that starts the tracking shot and leaves it on
handle_mouse_up_no_stop(h, e) ==
    IF e.button = 1
    THEN Result([h EXCEPT !.left_mouse_pressed = FALSE],
                <<stop_autofire, start_shooting_tracking>>)
    ELSE Result(h, <<>>)

\* a release that fires the tracking shot before it stops autofire
handle_mouse_up_swapped(h, e) ==
    IF e.button = 1
    THEN Result([h EXCEPT !.left_mouse_pressed = FALSE],
                <<start_shooting_tracking, stop_shooting_tracking, stop_autofire>>)
    ELSE Result(h, <<>>)

\* the MOUSEBUTTONUP branch of InputHandler.handle
handle_mouse_up(h, e) ==
    IF e.button = 1
    THEN Result([h EXCEPT !.left_mouse_pressed = FALSE],
                <<stop_autofire, start_shooting_tracking, stop_shooting_tracking>>)
    ELSE Result(h, <<>>)

\* whether the event makes InputHandler.handle return False
IsQuit(e) == e.type = "QUIT" \/ (e.type = "KEYDOWN" /\ e.key = "K_ESCAPE")

\* an event loop body that forgets the input state on a resize
handle_event_resize_resets(h, r, e) ==
    IF e.type = "KEYDOWN" THEN handle_key_down(h, e.key)
    ELSE IF e.type = "KEYUP" THEN handle_key_up(h, e.key)
    ELSE IF e.type = "MOUSEMOTION" THEN handle_mouse_motion(h, r, e)
    ELSE IF e.type = "MOUSEBUTTONDOWN" THEN handle_mouse_down(h, e)
    ELSE IF e.type = "MOUSEBUTTONUP" THEN handle_mouse_up(h, e)
    ELSE IF e.type = "VIDEORESIZE" THEN Result(InputHandlerInit, <<>>)
    ELSE Result(h, <<>>)

\* the body of the event loop of InputHandler.handle for one event that does
\* not quit: the new handler state and the engine calls it makes
handle_event(h, r, e) ==
    IF e.type = "KEYDOWN" THEN handle_key_down(h, e.key)
    ELSE IF e.type = "KEYUP" THEN handle_key_up(h, e.key)
    ELSE IF e.type = "MOUSEMOTION" THEN handle_mouse_motion(h, r, e)
    ELSE IF e.type = "MOUSEBUTTONDOWN" THEN handle_mouse_down(h, e)
    ELSE IF e.type = "MOUSEBUTTONUP" THEN handle_mouse_up(h, e)
    ELSE Result(h, <<>>)

\* the continuous input with the left command sent before the down command
held_commands_reordered(h) ==
    (IF h.w_pressed THEN <<send_command("move_up")>> ELSE <<>>)
    \o (IF h.a_pressed THEN <<send_command("move_left")>> ELSE <<>>)
    \o (IF h.s_pressed THEN <<send_command("move_down")>> ELSE <<>>)
    \o (IF h.d_pressed THEN <<send_command("move_right")>> ELSE <<>>)

\* the continuous input at the end of InputHandler.handle
held_commands(h) ==
    (IF h.w_pressed THEN <<send_command("move_up")>> ELSE <<>>)
    \o (IF h.s_pressed THEN <<send_command("move_down")>> ELSE <<>>)
    \o (IF h.a_pressed THEN <<send_command("move_left")>> ELSE <<>>)
    \o (IF h.d_pressed THEN <<send_command("move_right")>> ELSE <<>>)

\* ------------------------------------------------------------------ engine
\* the session state the calls of the engine interface toggle
EngineInit == [autofire |-> FALSE, tracking |-> FALSE, alt_mode |-> FALSE,
               boost_mode |-> FALSE, control_mode |-> FALSE]

ApplyCall(g, c) ==
    IF c.op = "start_autofire" THEN [g EXCEPT !.autofire = TRUE]
    ELSE IF c.op = "stop_autofire" THEN [g EXCEPT !.autofire = FALSE]
    ELSE IF c.op = "start_shooting_tracking" THEN [g EXCEPT !.tracking = TRUE]
    ELSE IF c.op = "stop_shooting_tracking" THEN [g EXCEPT !.tracking = FALSE]
    ELSE IF c.op = "set_alt_mode" THEN [g EXCEPT !.alt_mode = (c.arg = "True")]
    ELSE IF c.op = "set_boost_mode" THEN [g EXCEPT !.boost_mode = (c.arg = "True")]
    ELSE IF c.op = "set_control_mode" THEN [g EXCEPT !.control_mode = (c.arg = "True")]
    ELSE g

RECURSIVE ApplyCalls(_, _)
ApplyCalls(g, cs) == IF cs = <<>> THEN g ELSE ApplyCalls(ApplyCall(g, Head(cs)), Tail(cs))

\* --------------------------------------------------------------- rendering
PLAYER_WIDTH == 15
PLAYER_HEIGHT == 20
PLAYER_COLOR == <<0, 255, 0>>
BACKGROUND_COLOR == <<20, 20, 30>>

STAR_COLORS == [white |-> <<255, 255, 255>>, light_blue |-> <<173, 216, 230>>,
                cyan |-> <<0, 255, 255>>, light_purple |-> <<221, 160, 221>>,
                pink |-> <<255, 182, 193>>, pale_yellow |-> <<238, 232, 170>>]

\* dict.get(key, default)
Get(d, key, default) == IF key \in DOMAIN d THEN d[key] ELSE default

\* one draw call on the screen: what is drawn, its points (floats), its
\* colour, its width (a radius for a circle, a stroke width for a line or an
\* outline, a font size for a text) and the numbers a text prints
Draw(kind, pts, color, width) == [kind |-> kind, pts |-> pts, color |-> color, width |-> width, text |-> <<>>]

\* the points list of a pointed star in Renderer.draw_star: for each i the
\* outer point at angle and the inner point at inner_angle
RECURSIVE star_points(_, _, _, _)
star_points(screen_x, screen_y, size, angles) ==
    IF angles = <<>> THEN <<>>
    ELSE LET a == Head(angles)
         IN  <<<<FAdd(F(screen_x), FMul(a.outer_cos, size)),
                 FAdd(F(screen_y), FMul(a.outer_sin, size))>>,
               <<FAdd(F(screen_x), FMul(FMul(a.inner_cos, size), Lit_0_4)),
                 FAdd(F(screen_y), FMul(FMul(a.inner_sin, size), Lit_0_4))>>>>
             \o star_points(screen_x, screen_y, size, Tail(angles))

\* a star whose brightness is the twinkle alone, without the floor of one half
draw_star_unlit(star, scale, cam_x_scaled, cam_y_scaled) ==
    LET screen_x == FInt(FSub(FMul(star.x, scale), cam_x_scaled))
        screen_y == FInt(FSub(FMul(star.y, scale), cam_y_scaled))
        size == FMul(star.size, scale)
        base_color == STAR_COLORS[star.color]
        twinkle_factor == star.twinkle
        color == <<FInt(FMul(F(base_color[1]), twinkle_factor)),
                   FInt(FMul(F(base_color[2]), twinkle_factor)),
                   FInt(FMul(F(base_color[3]), twinkle_factor))>>
        shape == star.shape
    IN  IF shape = "circle"
        THEN <<Draw("circle", <<<<F(screen_x), F(screen_y)>>>>, color, FInt(size))>>
        ELSE IF shape = "four_point"
        THEN <<Draw("four_point", star_points(screen_x, screen_y, size, FourPointAngles), color, 0)>>
        ELSE IF shape = "six_point"
        THEN <<Draw("six_point", star_points(screen_x, screen_y, size, SixPointAngles), color, 0)>>
        ELSE <<>>

\* Renderer.draw_star: a circle, the polygon of a pointed star, or nothing for
\* any other shape
draw_star(star, scale, cam_x_scaled, cam_y_scaled) ==
    LET screen_x == FInt(FSub(FMul(star.x, scale), cam_x_scaled))
        screen_y == FInt(FSub(FMul(star.y, scale), cam_y_scaled))
        size == FMul(star.size, scale)
        base_color == STAR_COLORS[star.color]
        twinkle_factor == FAdd(Lit_0_5, FMul(star.twinkle, Lit_0_5))
        color == <<FInt(FMul(F(base_color[1]), twinkle_factor)),
                   FInt(FMul(F(base_color[2]), twinkle_factor)),
                   FInt(FMul(F(base_color[3]), twinkle_factor))>>
        shape == star.shape
    IN  IF shape = "circle"
        THEN <<Draw("circle", <<<<F(screen_x), F(screen_y)>>>>, color, FInt(size))>>
        ELSE IF shape = "four_point"
        THEN <<Draw("four_point", star_points(screen_x, screen_y, size, FourPointAngles), color, 0)>>
        ELSE IF shape = "six_point"
        THEN <<Draw("six_point", star_points(screen_x, screen_y, size, SixPointAngles), color, 0)>>
        ELSE <<>>

\* Renderer.draw_projectile
draw_projectile(proj, scale) ==
    LET screen_x == FInt(FMul(proj.x, scale))
        screen_y == FInt(FMul(proj.y, scale))
        length == FMul(proj.length, scale)
        width == FMul(proj.width, scale)
        rotation == proj.rotation
        bullet_length == FMul(length, Lit_0_5)
        w15 == FInt(FMul(width, Lit_1_5))
        bullet_width == IF w15 > 1 THEN w15 ELSE 1
        dx == FMul(Cos(rotation), FDiv(bullet_length, F(2)))
        dy == FMul(Sin(rotation), FDiv(bullet_length, F(2)))
    IN  <<Draw("projectile",
               <<<<FSub(F(screen_x), dx), FSub(F(screen_y), dy)>>,
                 <<FAdd(F(screen_x), dx), FAdd(F(screen_y), dy)>>>>,
               proj.color, bullet_width)>>

\* a gun whose mount point is pushed back along its aim
draw_gun_recoil(player_x, player_y, player_rotation, gun_angle, offset_x, offset_y, scale, cam_x_scaled, cam_y_scaled) ==
    LET c == Cos(player_rotation)
        sn == Sin(player_rotation)
        rx == FSub(FMul(offset_x, c), FMul(offset_y, sn))
        ry == FAdd(FMul(offset_x, sn), FMul(offset_y, c))
        gun_x == FAdd(player_x, rx)
        gun_y == FAdd(player_y, ry)
        screen_x == FSub(FSub(F(FInt(FMul(gun_x, scale))), Cos(gun_angle)), cam_x_scaled)
        screen_y == FSub(F(FInt(FMul(gun_y, scale))), cam_y_scaled)
        gun_length == FMul(Lit_10_0, scale)
        end_x == FAdd(screen_x, FMul(Cos(gun_angle), gun_length))
        end_y == FAdd(screen_y, FMul(Sin(gun_angle), gun_length))
        stroke_width == FInt(FMul(Lit_1_5, scale))
    IN  <<Draw("gun", <<<<screen_x, screen_y>>, <<end_x, end_y>>>>, PLAYER_COLOR, stroke_width)>>

\* Renderer.draw_gun
draw_gun(player_x, player_y, player_rotation, gun_angle, offset_x, offset_y, scale, cam_x_scaled, cam_y_scaled) ==
    LET c == Cos(player_rotation)
        sn == Sin(player_rotation)
        rx == FSub(FMul(offset_x, c), FMul(offset_y, sn))
        ry == FAdd(FMul(offset_x, sn), FMul(offset_y, c))
        gun_x == FAdd(player_x, rx)
        gun_y == FAdd(player_y, ry)
        screen_x == FSub(F(FInt(FMul(gun_x, scale))), cam_x_scaled)
        screen_y == FSub(F(FInt(FMul(gun_y, scale))), cam_y_scaled)
        gun_length == FMul(Lit_10_0, scale)
        end_x == FAdd(screen_x, FMul(Cos(gun_angle), gun_length))
        end_y == FAdd(screen_y, FMul(Sin(gun_angle), gun_length))
        stroke_width == FInt(FMul(Lit_1_5, scale))
    IN  <<Draw("gun", <<<<screen_x, screen_y>>, <<end_x, end_y>>>>, PLAYER_COLOR, stroke_width)>>

RECURSIVE draw_stars(_, _, _, _)
draw_stars(stars, scale, cam_x_scaled, cam_y_scaled) ==
    IF stars = <<>> THEN <<>>
    ELSE draw_star(Head(stars), scale, cam_x_scaled, cam_y_scaled)
         \o draw_stars(Tail(stars), scale, cam_x_scaled, cam_y_scaled)

RECURSIVE draw_projectiles(_, _)
draw_projectiles(projectiles, scale) ==
    IF projectiles = <<>> THEN <<>>
    ELSE draw_projectile(Head(projectiles), scale) \o draw_projectiles(Tail(projectiles), scale)

\* one vertex of the ship triangle: (vx, vy) turned by the rotation matrix of
\* the heading and moved to the screen position of the player
rotated_vertex(screen_x, screen_y, player_rotation, vx, vy) ==
    LET c == Cos(player_rotation)
        sn == Sin(player_rotation)
        rx == FSub(FMul(vx, c), FMul(vy, sn))
        ry == FAdd(FMul(vx, sn), FMul(vy, c))
    IN  <<FAdd(F(screen_x), rx), FAdd(F(screen_y), ry)>>

\* the ship triangle of Renderer.render: the rotated vertices around the
\* screen position of the player
ship_vertices(screen_x, screen_y, player_rotation, scale) ==
    LET width == FMul(FDiv(F(PLAYER_WIDTH), F(2)), scale)
        height == FMul(FDiv(F(PLAYER_HEIGHT), F(2)), scale)
    IN  <<rotated_vertex(screen_x, screen_y, player_rotation, F(0), FNeg(height)),
          rotated_vertex(screen_x, screen_y, player_rotation, width, height),
          rotated_vertex(screen_x, screen_y, player_rotation, FNeg(width), height)>>

\* the screen coordinates of the player in Renderer.render
ship_screen(r, data) ==
    LET scale == r.scale_factor
        player_x_scaled == FMul(data["player_x"], scale)
        player_y_scaled == FMul(data["player_y"], scale)
        cam_x_scaled == FMul(data["camera_x"], scale)
        cam_y_scaled == FMul(data["camera_y"], scale)
    IN  <<FInt(FSub(player_x_scaled, cam_x_scaled)), FInt(FSub(player_y_scaled, cam_y_scaled))>>

\* the spool text of Renderer.render: the two percentages it prints
spool_text(left_spool, right_spool) == <<round(FMul(left_spool, F(100))), round(FMul(right_spool, F(100)))>>

\* a render whose default heading is 0 instead of -pi/2
render_heading_right(r, data) ==
    LET player_x == data["player_x"]
        player_y == data["player_y"]
        cam_x == data["camera_x"]
        cam_y == data["camera_y"]
        player_rotation == Get(data, "player_rotation", 0)
        stars == Get(data, "stars", <<>>)
        scale == r.scale_factor
        cam_x_scaled == FMul(cam_x, scale)
        cam_y_scaled == FMul(cam_y, scale)
        left_gun_angle == Get(data, "left_gun_angle", -1)
        right_gun_angle == Get(data, "right_gun_angle", -1)
        screen == ship_screen(r, data)
        screen_x == screen[1]
        screen_y == screen[2]
        rotated_vertices == ship_vertices(screen_x, screen_y, player_rotation, scale)
        stroke_width == FInt(FMul(Lit_1_5, scale))
        projectiles == Get(data, "projectiles", <<>>)
        left_spool == Get(data, "left_gun_spool", Lit_0_0)
        right_spool == Get(data, "right_gun_spool", Lit_0_0)
    IN  <<Draw("fill", <<>>, BACKGROUND_COLOR, 0)>>
        \o draw_stars(stars, scale, cam_x_scaled, cam_y_scaled)
        \o draw_gun(player_x, player_y, player_rotation, left_gun_angle,
                    Lit_7_5, Lit_10_0, scale, cam_x_scaled, cam_y_scaled)
        \o draw_gun(player_x, player_y, player_rotation, right_gun_angle,
                    FNeg(Lit_7_5), Lit_10_0, scale, cam_x_scaled, cam_y_scaled)
        \o <<Draw("ship_fill", rotated_vertices, <<0, 0, 0>>, 0),
             Draw("ship_outline", rotated_vertices, PLAYER_COLOR, stroke_width)>>
        \o draw_projectiles(projectiles, scale)
        \o <<[Draw("text", <<<<F(10), F(10)>>>>, <<255, 255, 255>>, r.font)
                 EXCEPT !.text = spool_text(left_spool, right_spool)],
             Draw("flip", <<>>, <<0, 0, 0>>, 0)>>

\* a render that draws the ship body after the projectiles
render_ship_on_top(r, data) ==
    LET player_x == data["player_x"]
        player_y == data["player_y"]
        cam_x == data["camera_x"]
        cam_y == data["camera_y"]
        player_rotation == Get(data, "player_rotation", -1)
        stars == Get(data, "stars", <<>>)
        scale == r.scale_factor
        cam_x_scaled == FMul(cam_x, scale)
        cam_y_scaled == FMul(cam_y, scale)
        left_gun_angle == Get(data, "left_gun_angle", -1)
        right_gun_angle == Get(data, "right_gun_angle", -1)
        screen == ship_screen(r, data)
        screen_x == screen[1]
        screen_y == screen[2]
        rotated_vertices == ship_vertices(screen_x, screen_y, player_rotation, scale)
        stroke_width == FInt(FMul(Lit_1_5, scale))
        projectiles == Get(data, "projectiles", <<>>)
        left_spool == Get(data, "left_gun_spool", Lit_0_0)
        right_spool == Get(data, "right_gun_spool", Lit_0_0)
    IN  <<Draw("fill", <<>>, BACKGROUND_COLOR, 0)>>
        \o draw_stars(stars, scale, cam_x_scaled, cam_y_scaled)
        \o draw_gun(player_x, player_y, player_rotation, left_gun_angle,
                    Lit_7_5, Lit_10_0, scale, cam_x_scaled, cam_y_scaled)
        \o draw_gun(player_x, player_y, player_rotation, right_gun_angle,
                    FNeg(Lit_7_5), Lit_10_0, scale, cam_x_scaled, cam_y_scaled)
        \o draw_projectiles(projectiles, scale)
        \o <<Draw("ship_fill", rotated_vertices, <<0, 0, 0>>, 0),
             Draw("ship_outline", rotated_vertices, PLAYER_COLOR, stroke_width)>>
        \o <<[Draw("text", <<<<F(10), F(10)>>>>, <<255, 255, 255>>, r.font)
                 EXCEPT !.text = spool_text(left_spool, right_spool)],
             Draw("flip", <<>>, <<0, 0, 0>>, 0)>>

\* Renderer.render: the draw calls in the order they are made
render(r, data) ==
    LET player_x == data["player_x"]
        player_y == data["player_y"]
        cam_x == data["camera_x"]
        cam_y == data["camera_y"]
        player_rotation == Get(data, "player_rotation", -1)
        stars == Get(data, "stars", <<>>)
        scale == r.scale_factor
        cam_x_scaled == FMul(cam_x, scale)
        cam_y_scaled == FMul(cam_y, scale)
        left_gun_angle == Get(data, "left_gun_angle", -1)
        right_gun_angle == Get(data, "right_gun_angle", -1)
        screen == ship_screen(r, data)
        screen_x == screen[1]
        screen_y == screen[2]
        rotated_vertices == ship_vertices(screen_x, screen_y, player_rotation, scale)
        stroke_width == FInt(FMul(Lit_1_5, scale))
        projectiles == Get(data, "projectiles", <<>>)
        left_spool == Get(data, "left_gun_spool", Lit_0_0)
        right_spool == Get(data, "right_gun_spool", Lit_0_0)
    IN  <<Draw("fill", <<>>, BACKGROUND_COLOR, 0)>>
        \o draw_stars(stars, scale, cam_x_scaled, cam_y_scaled)
        \o draw_gun(player_x, player_y, player_rotation, left_gun_angle,
                    Lit_7_5, Lit_10_0, scale, cam_x_scaled, cam_y_scaled)
        \o draw_gun(player_x, player_y, player_rotation, right_gun_angle,
                    FNeg(Lit_7_5), Lit_10_0, scale, cam_x_scaled, cam_y_scaled)
        \o <<Draw("ship_fill", rotated_vertices, <<0, 0, 0>>, 0),
             Draw("ship_outline", rotated_vertices, PLAYER_COLOR, stroke_width)>>
        \o draw_projectiles(projectiles, scale)
        \o <<[Draw("text", <<<<F(10), F(10)>>>>, <<255, 255, 255>>, r.font)
                 EXCEPT !.text = spool_text(left_spool, right_spool)],
             Draw("flip", <<>>, <<0, 0, 0>>, 0)>>

\* ------------------------------------------------------------------- state
VARIABLES
    pc,           \* position of main(): "loop", "handle", "update", "get_render_data", "render", "done"
    running,      \* main's local variable
    dt,           \* clock.tick(FPS) of the current tick, in milliseconds
    ih,           \* the InputHandler's fields
    renderer,     \* the Renderer's fields
    engine,       \* the engine's modes, as set by the calls made so far
    calls,        \* the engine calls the last step made, in order
    held,         \* the keys and mouse buttons physically held (pygame's side)
    nev,          \* handle's position in the batch: the events processed so far
    event,        \* handle's loop variable: the event processed last (NoEvent outside the loop)
    render_data,  \* main's local variable: the snapshot fetched in the current tick
    drawn         \* the draw calls of the current tick's render, in order

vars == <<pc, running, dt, ih, renderer, engine, calls, held, nev, event, render_data, drawn>>

\* the milliseconds clock.tick(FPS) may return at 60 frames per second
DtSet == {1000 \div FPS, 1000 \div FPS + 1}

\* the monitors main() may start on
Monitors == {<<1920, 1080>>}

\* no event taken from the batch yet
NoEvent == Event("NONE", "", 0, <<0, 0>>, 0, 0)

ButtonName(b) == IF b = 1 THEN "B1" ELSE "B3"

\* the key and button events pygame can deliver next, given what is physically held
KeyEvents ==
    {KeyDown(k) : k \in {k \in Keys : k \notin held /\ Cardinality(held) < MaxHeld}}
    \cup {KeyUp(k) : k \in Keys \cap held}
    \cup {MouseDown(b) : b \in {b \in Buttons : ButtonName(b) \notin held
                                                /\ Cardinality(held) < MaxHeld}}
    \cup {MouseUp(b) : b \in {b \in Buttons : ButtonName(b) \in held}}
    \cup {QuitEvent}

\* the window and pointer events: resize requests (the widths 160, 320, ... at
\* the heights 160 and 320, and four sizes of real windows) and mouse positions
ResizeRequests ==
    {<<160 * i, 160 * j>> : i \in 1..MaxDim, j \in 1..2}
    \cup {<<1000, 500>>, <<800, 600>>, <<1280, 1024>>, <<1024, 1280>>}
Positions == {<<400, 300>>, <<799, 1>>}
ViewKeys == {"K_w", "K_LSHIFT"}
ViewEvents ==
    {VideoResize(q[1], q[2]) : q \in ResizeRequests} \cup {MouseMotion(p) : p \in Positions}
    \cup {KeyDown(k) : k \in {k \in ViewKeys : k \notin held /\ Cardinality(held) < MaxHeld}}
    \cup {MouseDown(b) : b \in {b \in {1} : ButtonName(b) \notin held
                                              /\ Cardinality(held) < MaxHeld}}

\* what is physically held after the event
HeldAfter(e) ==
    IF e.type = "KEYDOWN" THEN held \cup {e.key}
    ELSE IF e.type = "KEYUP" THEN held \ {e.key}
    ELSE IF e.type = "MOUSEBUTTONDOWN" THEN held \cup {ButtonName(e.button)}
    ELSE IF e.type = "MOUSEBUTTONUP" THEN held \ {ButtonName(e.button)}
    ELSE held

\* ------------------------------------------------------------- snapshots
Snapshot(px, py, cx, cy, rot, stars, projectiles) ==
    [player_x |-> F(px), player_y |-> F(py), camera_x |-> F(cx),
     camera_y |-> F(cy), player_rotation |-> rot, stars |-> stars,
     projectiles |-> projectiles]

Star(x, y, size, color, shape, twinkle) ==
    [x |-> F(x), y |-> F(y), size |-> F(size), color |-> color,
     shape |-> shape, twinkle |-> twinkle]

Projectile(x, y, length, width, rotation, color) ==
    [x |-> F(x), y |-> F(y), length |-> F(length), width |-> F(width),
     rotation |-> rotation, color |-> color]

\* the k elements of the list from position o on, cyclically
Cyclic(list, o, k) == [i \in 1..k |-> list[((o + i - 2) % Len(list)) + 1]]
Runs(list, n) == {Cyclic(list, o, k) : o \in 1..Len(list), k \in 0..n}

StarList == <<Star(100, 50, 2, "white", "circle", Lit(0, 1)),
              Star(650, 975, 3, "cyan", "four_point", Lit(1, 2)),
              Star(-20, 410, 1, "pink", "six_point", Lit(1, 1))>>
ProjectileList == <<Projectile(420, 280, 12, 2, -1, <<255, 255, 0>>),
                    Projectile(1010, 1240, 8, 1, 0, <<255, 0, 0>>)>>
\* the player and the camera of a snapshot: <<player_x, player_y, camera_x, camera_y>>
PlayerCameras == {<<400, 300, 0, 0>>, <<1000, 1250, 600, 950>>, <<400, 300, -40, 25>>}
Rotations == {-1, 0, 1, 2}
\* the headings of the snapshots with stars and projectiles
SceneRotations == {-1, 0}

\* a snapshot with the required fields only
MinimalSnapshot(px, py, cx, cy) ==
    [player_x |-> F(px), player_y |-> F(py), camera_x |-> F(cx),
     camera_y |-> F(cy)]

\* a snapshot with a heading, the aim angles of the two guns and their spool
\* levels 0.125 and 0.5
GunSnapshot(px, py, cx, cy, rot, la, ra) ==
    [player_x |-> F(px), player_y |-> F(py), camera_x |-> F(cx),
     camera_y |-> F(cy), player_rotation |-> rot, left_gun_angle |-> la,
     right_gun_angle |-> ra, left_gun_spool |-> Lit(1, 8), right_gun_spool |-> Lit(1, 2)]

GunAngles == {-1, 0, 1}

\* the snapshots the engine may return
Snapshots ==
    {Snapshot(p[1], p[2], p[3], p[4], rot, stars, projectiles) :
        p \in PlayerCameras, rot \in SceneRotations,
        stars \in Runs(StarList, MaxStars),
        projectiles \in Runs(ProjectileList, MaxProjectiles)}
    \cup {MinimalSnapshot(p[1], p[2], p[3], p[4]) : p \in PlayerCameras}
    \cup {GunSnapshot(p[1], p[2], p[3], p[4], rot, la, ra) :
            p \in PlayerCameras, rot \in Rotations, la \in GunAngles, ra \in GunAngles}

\* main's render_data before the tick's fetch: the previous snapshot is
\* overwritten before it is read again, so a tick starts without one
NoSnapshot == Snapshot(0, 0, 0, 0, -1, <<>>, <<>>)

\* the snapshots of the frame loop's runs: the session start and a later frame
LoopSnapshots ==
    {Snapshot(400, 300, 0, 0, -1, <<>>, <<>>),
     Snapshot(1000, 1250, 600, 950, 0, <<Star(650, 975, 3, "cyan", "four_point", Lit(1, 2))>>,
              <<Projectile(1010, 1240, 8, 1, 0, <<255, 0, 0>>)>>)}

\* the window sizes the render runs are resized to
RenderSizes == {<<800, 600>>, <<1600, 1200>>, <<400, 300>>}

\* ------------------------------------------------------------ frame loop
InitialRenderer ==
    {LET size == get_max_window_size(m[1], m[2]) IN Renderer(size[1], size[2]) : m \in Monitors}

\* the renderers the frame loop can have: the one of the start-up window and
\* the ones a resize request leaves
LoopRenderers ==
    InitialRenderer
    \cup {handle_resize(r, VideoResize(q[1], q[2])) : r \in InitialRenderer, q \in ResizeRequests}

\* Renderer.render on the snapshots of the frame loop, for each of its renderers
LoopFrames ==
    {[r |-> r, d |-> d, frame |-> render(r, d)] : r \in LoopRenderers, d \in LoopSnapshots}

\* renderer.render(render_data) as main calls it: the draw calls depend on the
\* renderer and the snapshot alone, so a frame is drawn as it was drawn before
frame(r, d) == (CHOOSE f \in LoopFrames : f.r = r /\ f.d = d).frame

\* the renderers of the render runs: the one of the start-up window and the
\* ones a resize to a size of RenderSizes leaves
RenderRenderers ==
    InitialRenderer
    \cup {handle_resize(r, VideoResize(size[1], size[2])) : r \in InitialRenderer, size \in RenderSizes}

Init ==
    /\ pc = "loop"
    /\ running = TRUE
    /\ dt = 0
    /\ ih = InputHandlerInit
    /\ renderer \in InitialRenderer
    /\ engine = EngineInit
    /\ calls = <<>>
    /\ held = {}
    /\ nev = 0
    /\ event = NoEvent
    /\ render_data = NoSnapshot
    /\ drawn = <<>>

\* while running: dt = clock.tick(FPS) / 1000.0, then pygame.event.get()
Tick ==
    /\ pc = "loop" /\ running
    /\ \E ms \in DtSet : dt' = ms
    /\ calls' = <<>>
    /\ nev' = 0
    /\ event' = NoEvent
    /\ render_data' = NoSnapshot
    /\ drawn' = <<>>
    /\ pc' = "handle"
    /\ UNCHANGED <<running, ih, renderer, engine, held>>

\* the loop condition fails: pygame.quit(), sys.exit()
Exit ==
    /\ pc = "loop" /\ ~running
    /\ pc' = "done"
    /\ calls' = <<>>
    /\ UNCHANGED <<running, dt, ih, renderer, engine, held, nev, event, render_data, drawn>>

\* one iteration of the event loop of handle on an event that returns False
HandleQuit(e) ==
    /\ pc = "handle" /\ nev < MaxEvents
    /\ IsQuit(e)
    /\ running' = FALSE
    /\ pc' = "update"
    /\ nev' = 0
    /\ event' = NoEvent
    /\ held' = HeldAfter(e)
    /\ calls' = <<>>
    /\ UNCHANGED <<dt, ih, renderer, engine, render_data, drawn>>

\* one iteration of the event loop of handle on any other event
HandleEvent(e) ==
    /\ pc = "handle" /\ nev < MaxEvents
    /\ ~IsQuit(e)
    /\ LET r == handle_resize(renderer, e)
           res == handle_event(ih, r, e)
       IN  /\ renderer' = r
           /\ ih' = res.ih
           /\ calls' = res.calls
           /\ engine' = ApplyCalls(engine, res.calls)
    /\ nev' = nev + 1
    /\ event' = e
    /\ held' = HeldAfter(e)
    /\ UNCHANGED <<pc, running, dt, render_data, drawn>>

\* the batch is exhausted: the held movement commands, then return True
HandleEnd ==
    /\ pc = "handle"
    /\ calls' = held_commands(ih)
    /\ running' = TRUE
    /\ pc' = "update"
    /\ nev' = 0
    /\ event' = NoEvent
    /\ UNCHANGED <<dt, ih, renderer, engine, held, render_data, drawn>>

\* game_engine.update(dt)
Update ==
    /\ pc = "update"
    /\ calls' = <<update(dt)>>
    /\ pc' = "get_render_data"
    /\ UNCHANGED <<running, dt, ih, renderer, engine, held, nev, event, render_data, drawn>>

\* render_data = game_engine.get_render_data()
GetRenderData ==
    /\ pc = "get_render_data"
    /\ calls' = <<get_render_data>>
    /\ render_data' \in LoopSnapshots
    /\ pc' = "render"
    /\ UNCHANGED <<running, dt, ih, renderer, engine, held, nev, event, drawn>>

\* renderer.render(render_data)
Render ==
    /\ pc = "render"
    /\ drawn' = frame(renderer, render_data)
    /\ calls' = <<>>
    /\ pc' = "loop"
    /\ UNCHANGED <<running, dt, ih, renderer, engine, held, nev, event, render_data>>

\* renderer.render(render_data) on a snapshot of the render runs
RenderSnapshot ==
    /\ pc = "render"
    /\ drawn' = render(renderer, render_data)
    /\ calls' = <<>>
    /\ pc' = "loop"
    /\ UNCHANGED <<running, dt, ih, renderer, engine, held, nev, event, render_data>>

Next ==
    \/ Tick
    \/ Exit
    \/ \E e \in KeyEvents : HandleQuit(e)
    \/ \E e \in KeyEvents : HandleEvent(e)
    \/ HandleEnd
    \/ Update
    \/ GetRenderData
    \/ Render

\* the frame loop under key, button and quit events
Spec == Init /\ [][Next]_vars

NextView ==
    \/ Tick
    \/ \E e \in ViewEvents : HandleEvent(e)
    \/ HandleEnd
    \/ Update
    \/ GetRenderData
    \/ Render

\* the frame loop under resize and mouse motion events
SpecView == Init /\ [][NextView]_vars

InitRender ==
    /\ pc = "render"
    /\ running = TRUE
    /\ dt = 0
    /\ ih = InputHandlerInit
    /\ renderer \in RenderRenderers
    /\ engine = EngineInit
    /\ calls = <<>>
    /\ held = {}
    /\ nev = 0
    /\ event = NoEvent
    /\ render_data \in Snapshots
    /\ drawn = <<>>

NextRender == RenderSnapshot

\* Renderer.render on the snapshots of Snapshots in the start-up window and at
\* the window sizes of RenderSizes
SpecRender == InitRender /\ [][NextRender]_vars

\* the twinkle values of the stars of the twinkle runs
Twinkles == {Lit(0, 1), Lit(1, 4), Lit(1, 2), Lit(3, 4), Lit(1, 1)}

\* one star of every colour of STAR_COLORS at every twinkle of Twinkles
TwinkleSnapshots ==
    {Snapshot(400, 300, 0, 0, -1, <<Star(100, 50, 2, color, "circle", twinkle)>>, <<>>) :
        color \in DOMAIN STAR_COLORS, twinkle \in Twinkles}

InitTwinkle ==
    /\ pc = "render"
    /\ running = TRUE
    /\ dt = 0
    /\ ih = InputHandlerInit
    /\ renderer \in RenderRenderers
    /\ engine = EngineInit
    /\ calls = <<>>
    /\ held = {}
    /\ nev = 0
    /\ event = NoEvent
    /\ render_data \in TwinkleSnapshots
    /\ drawn = <<>>

NextTwinkle == RenderSnapshot

\* Renderer.render on one star of every colour and twinkle
SpecTwinkle == InitTwinkle /\ [][NextTwinkle]_vars

\* ================================================================== claims
Range(sq) == {sq[i] : i \in 1..Len(sq)}
Count(sq, c) == Cardinality({i \in 1..Len(sq) : sq[i] = c})
Ops(sq) == {sq[i].op : i \in 1..Len(sq)}

\* the steps of the frame loop, recognised by what they change
EventStep == pc = "handle" /\ pc' = "handle" /\ nev' = nev + 1
Pressed(k) == EventStep /\ k \notin held /\ k \in held'
Released(k) == EventStep /\ k \in held /\ k \notin held'
FireSources == {"K_SPACE", "B1"}
ReleaseCalls == <<stop_autofire, start_shooting_tracking, stop_shooting_tracking>>

\* C1: once handle has observed a quit signal (it returned False, so running
\* is false), no step of the loop makes an engine call any more.
C1_NoEngineCallAfterQuit == [][~running => calls' = <<>>]_vars

\* C2: a key-down of a modifier whose mode is already tracked as held issues
\* no set_<mode>_mode(true): no step starting with the flag set makes the call.
C2_NoRepeatedModeOn ==
    [][/\ ih.alt_pressed => set_alt_mode(TRUE) \notin Range(calls')
       /\ ih.shift_pressed => set_boost_mode(TRUE) \notin Range(calls')
       /\ ih.ctrl_pressed => set_control_mode(TRUE) \notin Range(calls')]_vars

\* the four directions: the command and the keys of each
Directions ==
    {[cmd |-> "move_up", keys |-> {"K_w", "K_UP"}],
     [cmd |-> "move_down", keys |-> {"K_s", "K_DOWN"}],
     [cmd |-> "move_left", keys |-> {"K_a", "K_LEFT"}],
     [cmd |-> "move_right", keys |-> {"K_d", "K_RIGHT"}]}

\* C3: when handle has returned True (the tick does not quit), it has issued
\* move_<dir> exactly once if a key of the direction is held at the end of the
\* event processing, and not at all otherwise.
C3_MoveOncePerHeldKey ==
    (pc = "update" /\ running) =>
        \A d \in Directions :
            Count(calls, send_command(d.cmd)) = IF d.keys \cap held # {} THEN 1 ELSE 0

\* C4: every press edge of a fire source (Space, left mouse button) issues
\* exactly start_autofire(); every release edge issues exactly stop_autofire(),
\* start_shooting_tracking(), stop_shooting_tracking(), consecutively in that
\* order; no other step issues any of these calls.
C4_FireEdges ==
    [][/\ \A k \in FireSources :
            /\ Pressed(k) => calls' = <<start_autofire>>
            /\ Released(k) => calls' = ReleaseCalls
       /\ (Ops(calls') \cap {"start_autofire", "stop_autofire", "start_shooting_tracking",
                             "stop_shooting_tracking"} # {})
            => \E k \in FireSources : Pressed(k) \/ Released(k)]_vars

\* C4 witness: Space was released as the second event of a batch and the
\* three release calls were made.
C4_Witness ==
    /\ pc = "handle" /\ nev = 2 /\ event = KeyUp("K_SPACE")
    /\ calls = ReleaseCalls

\* C5: the fire sources are not reference counted: releasing one of them while
\* the other is still held issues stop_autofire() (with the tracking pulse), and
\* start_autofire() is issued by press edges only.
C5_NoReferenceCount ==
    [][/\ \A k \in FireSources :
            (Released(k) /\ (FireSources \ {k}) \subseteq held')
                => (calls' = ReleaseCalls /\ ~engine'.autofire)
       /\ start_autofire \in Range(calls') => \E k \in FireSources : Pressed(k)]_vars

\* C5 witness: autofire is off in the engine while a fire source is held and
\* tracked as held.
C5_Witness ==
    /\ ~engine.autofire
    /\ \/ "K_SPACE" \in held /\ ih.space_pressed
       \/ "B1" \in held /\ ih.left_mouse_pressed

MoveRank(c) ==
    IF c.arg = "move_up" THEN 1 ELSE IF c.arg = "move_down" THEN 2
    ELSE IF c.arg = "move_left" THEN 3 ELSE 4

\* C6: in a tick that does not quit the calls come in this order: the calls of
\* the events (event steps make no movement, update or query call), then the
\* held movement commands in the order up, down, left, right (each once, if and
\* only if its flag is set), then one update(dt), then one get_render_data(),
\* then the render of the snapshot fetched; the next tick starts only then.
C6_TickOrder ==
    [][/\ pc' # pc =>
            \/ pc = "loop" /\ pc' \in {"handle", "done"}
            \/ pc = "handle" /\ pc' = "update"
            \/ pc = "update" /\ pc' = "get_render_data"
            \/ pc = "get_render_data" /\ pc' = "render"
            \/ pc = "render" /\ pc' = "loop"
       /\ (pc = "handle" /\ pc' = "handle")
            => Ops(calls') \cap {"send_command", "update", "get_render_data"} = {}
       /\ (pc = "handle" /\ pc' = "update" /\ running')
            => /\ Ops(calls') \subseteq {"send_command"}
               /\ \A i, j \in 1..Len(calls') : i < j => MoveRank(calls'[i]) < MoveRank(calls'[j])
               /\ send_command("move_up") \in Range(calls') <=> ih.w_pressed
               /\ send_command("move_down") \in Range(calls') <=> ih.s_pressed
               /\ send_command("move_left") \in Range(calls') <=> ih.a_pressed
               /\ send_command("move_right") \in Range(calls') <=> ih.d_pressed
       /\ pc = "update" => calls' = <<update(dt)>> /\ pc' = "get_render_data"
       /\ pc = "get_render_data" => calls' = <<get_render_data>> /\ pc' = "render"
       /\ pc = "render" => /\ calls' = <<>> /\ pc' = "loop"
                           /\ drawn' = frame(renderer, render_data)
                           /\ drawn = <<>>
       /\ pc = "loop" => calls' = <<>>]_vars

\* C6 witness: a tick that did not quit has issued two held movement commands.
C6_Witness == pc = "update" /\ running /\ Len(calls) = 2

\* C7: a mouse-motion event at device pixel (px, py) issues exactly one
\* set_mouse_target(px / s, py / s), s being the renderer's scale_factor when
\* the event is processed.
C7_MouseTargetByScaleFactor ==
    [][(EventStep /\ event'.type = "MOUSEMOTION")
        => calls' = <<set_mouse_target(FDiv(F(event'.pos[1]), renderer'.scale_factor),
                                       FDiv(F(event'.pos[2]), renderer'.scale_factor))>>]_vars

\* C8: scale_factor equals the width of the display surface divided by 800,
\* exactly, after any resize.
C8_ScaleIsWidthOver800 ==
    renderer.scale_factor = Lit(renderer.screen[1], BASE_WIDTH)

\* C9: after a resize request (w, h) the display surface is 4:3 up to the
\* truncation of a dimension: a request wider than 4:3 keeps w and gets the
\* height int(w / (4/3)), a taller one keeps h and gets the width int(h * 4/3),
\* a 4:3 request keeps both; the surface stays 4:3 up to truncation throughout.
C9_AspectAfterResize ==
    LET sw == renderer.screen[1]
        sh == renderer.screen[2]
    IN  /\ sh = (3 * sw) \div 4 \/ sw = (4 * sh) \div 3
        /\ event.type = "VIDEORESIZE" =>
              IF 3 * event.w > 4 * event.h THEN sw = event.w /\ sh = (3 * event.w) \div 4
              ELSE IF 3 * event.w < 4 * event.h THEN sh = event.h /\ sw = (4 * event.h) \div 3
              ELSE sw = event.w /\ sh = event.h

\* C9 witness: the request (1000, 500) was corrected to (1000, 750), as the
\* second resize of a batch.
C9_Witness ==
    /\ event = VideoResize(1000, 500) /\ nev = 2
    /\ renderer.screen = <<1000, 750>>

\* ---- C10: the device-space transform
\* the screen position the transform gives the logical point (lx, ly):
\* lx*scale - camera_x*scale is (lx - camera_x)*scale, and so for the ordinate;
\* the difference of two whole coordinates is exact and the product is rounded
\* once, so this is the double nearest to the transform's value
Transformed(lx, ly) ==
    LET scale == renderer.scale_factor
    IN  <<FMul(FSub(lx, render_data["camera_x"]), scale),
          FMul(FSub(ly, render_data["camera_y"]), scale)>>

\* a drawn point that is the transform of (lx, ly) up to integer truncation
Near(pt, lx, ly) ==
    /\ FLt(FAbs(FSub(pt[1], Transformed(lx, ly)[1])), F(1))
    /\ FLt(FAbs(FSub(pt[2], Transformed(lx, ly)[2])), F(1))

Mid(a, b) == <<FDiv(FAdd(a[1], b[1]), F(2)), FDiv(FAdd(a[2], b[2]), F(2))>>

\* the centre of a drawn star: the centre of the circle, or halfway between
\* two opposite outer points of the polygon
StarCentre(d) ==
    IF d.kind = "circle" THEN d.pts[1] ELSE Mid(d.pts[1], d.pts[1 + Len(d.pts) \div 2])

\* where the draw calls of a frame are: the stars follow the clear, then the
\* two guns, the ship (fill, outline) and the projectiles
Stars == Get(render_data, "stars", <<>>)
Projectiles == Get(render_data, "projectiles", <<>>)
NStars == Len(Stars)
Heading == Get(render_data, "player_rotation", -1)
StarDraw(i) == drawn[1 + i]
GunDraw(i) == drawn[1 + NStars + i]
ShipDraw == drawn[NStars + 4]
ProjectileDraw(j) == drawn[NStars + 5 + j]

\* the centre of the drawn ship: halfway between the tip and the middle of the
\* rear edge
ShipCentre == Mid(ShipDraw.pts[1], Mid(ShipDraw.pts[2], ShipDraw.pts[3]))

\* the logical mount point of a gun: the player plus the offset rotated by the heading
MountX(ox) ==
    FAdd(render_data["player_x"],
         FSub(FMul(ox, Cos(Heading)),
              FMul(Lit_10_0, Sin(Heading))))
MountY(ox) ==
    FAdd(render_data["player_y"],
         FAdd(FMul(ox, Sin(Heading)),
              FMul(Lit_10_0, Cos(Heading))))

Rendered == pc = "loop" /\ drawn # <<>>

StarsTransformed ==
    \A i \in 1..NStars :
        Near(StarCentre(StarDraw(i)), Stars[i].x, Stars[i].y)
ShipTransformed == Near(ShipCentre, render_data["player_x"], render_data["player_y"])
GunsTransformed ==
    /\ Near(GunDraw(1).pts[1], MountX(Lit_7_5), MountY(Lit_7_5))
    /\ Near(GunDraw(2).pts[1], MountX(FNeg(Lit_7_5)), MountY(FNeg(Lit_7_5)))
ProjectilesTransformed ==
    \A j \in 1..Len(Projectiles) :
        Near(Mid(ProjectileDraw(j).pts[1], ProjectileDraw(j).pts[2]),
             Projectiles[j].x, Projectiles[j].y)

\* C10: every star, the ship centre, every gun mount point and every
\* projectile is drawn at (lx*scale - camera_x*scale, ly*scale - camera_y*scale)
\* up to integer truncation (less than one pixel off), for every camera offset
\* and scale factor.
C10_AllObjectsTransformed ==
    Rendered => StarsTransformed /\ ShipTransformed /\ GunsTransformed
                /\ ProjectilesTransformed

\* ---- C11: the twinkle bounds
\* the base channel k of star i
BaseChannel(i, k) == STAR_COLORS[Stars[i].color][k]

\* C11 as stated: every rendered channel of a star lies in [round(0.5 * c), c]
\* for its base channel c, and equals c at twinkle 1.
C11_TwinkleRoundBounds ==
    Rendered =>
        \A i \in 1..NStars : \A k \in 1..3 :
            /\ StarDraw(i).color[k] >= round(FMul(Lit_0_5, F(BaseChannel(i, k))))
            /\ StarDraw(i).color[k] <= BaseChannel(i, k)
            /\ Stars[i].twinkle = F(1) => StarDraw(i).color[k] = BaseChannel(i, k)

\* C11 amended: every rendered channel of a star lies in [floor(0.5 * c), c]
\* for its base channel c; it equals c at twinkle 1 and floor(0.5 * c) at
\* twinkle 0 (white at twinkle 0 is drawn (127, 127, 127)).
C11_TwinkleFloorBounds ==
    Rendered =>
        \A i \in 1..NStars : \A k \in 1..3 :
            /\ StarDraw(i).color[k] >= BaseChannel(i, k) \div 2
            /\ StarDraw(i).color[k] <= BaseChannel(i, k)
            /\ Stars[i].twinkle = F(1) => StarDraw(i).color[k] = BaseChannel(i, k)
            /\ Stars[i].twinkle = F(0) => StarDraw(i).color[k] = BaseChannel(i, k) \div 2

\* C11 witness: a white star at twinkle 0 was drawn (127, 127, 127).
C11_Witness ==
    /\ Rendered /\ NStars = 1
    /\ Stars[1].color = "white" /\ Stars[1].twinkle = F(0)
    /\ StarDraw(1).color = <<127, 127, 127>>

\* ---- C12: the default heading
RequiredFields == {"player_x", "player_y", "camera_x", "camera_y"}

\* C12: without player_rotation in the snapshot the tip of the ship triangle is
\* drawn directly above the ship's screen centre, half the scaled player height
\* up, and the two rear corners below the centre.
C12_DefaultHeadingPointsUp ==
    (Rendered /\ "player_rotation" \notin DOMAIN render_data) =>
        LET centre == ship_screen(renderer, render_data)
            height == FMul(Lit(PLAYER_HEIGHT, 2), renderer.scale_factor)
            v == ShipDraw.pts
        IN  /\ v[1] = <<F(centre[1]), FSub(F(centre[2]), height)>>
            /\ FLt(F(centre[2]), v[2][2])
            /\ FLt(F(centre[2]), v[3][2])

\* ---- C13: the stroke width of the ship outline
OutlineDraw == drawn[NStars + 5]

\* C13: the ship outline is stroked with width round(1.5 * scale), and the
\* stroke width is never 0.
C13_StrokeWidthRounded ==
    Rendered =>
        /\ OutlineDraw.kind = "ship_outline"
        /\ OutlineDraw.width = round(FMul(Lit_1_5, renderer.scale_factor))
        /\ OutlineDraw.width # 0

\* ---- C14: the optional snapshot fields
\* the snapshot with every optional field at its documented default
WithDefaults(d) ==
    [player_x |-> d["player_x"], player_y |-> d["player_y"],
     camera_x |-> d["camera_x"], camera_y |-> d["camera_y"],
     player_rotation |-> -1, stars |-> <<>>, projectiles |-> <<>>,
     left_gun_angle |-> -1, right_gun_angle |-> -1,
     left_gun_spool |-> Lit_0_0, right_gun_spool |-> Lit_0_0]

Kinds == [i \in 1..Len(drawn) |-> drawn[i].kind]

\* C14: for a snapshot with only player_x, player_y, camera_x and camera_y,
\* render completes: it draws what it draws for the same snapshot with empty
\* star and projectile lists, heading and gun angles -pi/2 and spools 0, up to
\* the presentation of the frame.
C14_MissingFieldsDefaulted ==
    (Rendered /\ DOMAIN render_data = RequiredFields) =>
        /\ drawn = render(renderer, WithDefaults(render_data))
        /\ Kinds = <<"fill", "gun", "gun", "ship_fill", "ship_outline", "text", "flip">>

\* C14 witness: a snapshot with the four required fields only was rendered.
C14_Witness ==
    /\ Rendered /\ DOMAIN render_data = RequiredFields
    /\ render_data["camera_x"] # F(0)
    /\ drawn[Len(drawn)].kind = "flip"

\* ---- C16: the draw order
Layer(kind) ==
    IF kind = "fill" THEN 1
    ELSE IF kind \in {"circle", "four_point", "six_point"} THEN 2
    ELSE IF kind = "gun" THEN 3
    ELSE IF kind = "ship_fill" THEN 4
    ELSE IF kind = "ship_outline" THEN 5
    ELSE IF kind = "projectile" THEN 6
    ELSE IF kind = "text" THEN 7
    ELSE 8

KindCount(layer) == Cardinality({i \in 1..Len(drawn) : Layer(drawn[i].kind) = layer})

\* C16: every render draws the background clear, then all stars, then both
\* gun mounts, then the ship fill and the ship outline, then all projectiles,
\* then the HUD text, then presents the frame; no draw of an earlier layer
\* follows a draw of a later layer.
C16_DrawOrder ==
    Rendered =>
        /\ \A i, j \in 1..Len(drawn) : i < j => Layer(drawn[i].kind) <= Layer(drawn[j].kind)
        /\ KindCount(1) = 1 /\ KindCount(2) = NStars /\ KindCount(3) = 2
        /\ KindCount(4) = 1 /\ KindCount(5) = 1 /\ KindCount(6) = Len(Projectiles)
        /\ KindCount(7) = 1 /\ KindCount(8) = 1
        /\ drawn[Len(drawn)].kind = "flip"

\* C16 witness: a frame with two stars and a projectile was rendered.
C16_Witness == Rendered /\ NStars = 2 /\ Len(Projectiles) = 1 /\ Len(drawn) = 10

\* ---- C17: the guns and the hull
\* the snapshot d with the gun angles la and ra
SetGuns(d, la, ra) ==
    [k \in DOMAIN d \cup {"left_gun_angle", "right_gun_angle"} |->
        IF k = "left_gun_angle" THEN la
        ELSE IF k = "right_gun_angle" THEN ra
        ELSE d[k]]

\* C17: a frame and the frame of the same snapshot with both guns at the
\* default angle consist of the same draw calls but for the end points of the
\* gun segments: the same three ship vertices and the same gun mount points; a
\* gun's end point differs exactly when its angle does.  Two snapshots that
\* differ only in their gun angles have the same reference frame, so they
\* agree on the hull and the mount points.
C17_GunsLeaveHull ==
    Rendered =>
        LET other == render(renderer, SetGuns(render_data, -1, -1))
            guns == {NStars + 2, NStars + 3}
        IN  /\ Len(other) = Len(drawn)
            /\ \A i \in 1..Len(drawn) : i \notin guns => other[i] = drawn[i]
            /\ \A i \in guns :
                  /\ other[i].kind = "gun" /\ drawn[i].kind = "gun"
                  /\ other[i].pts[1] = drawn[i].pts[1]
                  /\ other[i].width = drawn[i].width /\ other[i].color = drawn[i].color
            /\ (other[NStars + 2].pts[2] = drawn[NStars + 2].pts[2])
                  <=> (Get(render_data, "left_gun_angle", -1) = -1)
            /\ (other[NStars + 3].pts[2] = drawn[NStars + 3].pts[2])
                  <=> (Get(render_data, "right_gun_angle", -1) = -1)

\* C17 witness: a frame whose guns aim at different angles, neither the default.
C17_Witness ==
    /\ Rendered
    /\ "left_gun_angle" \in DOMAIN render_data
    /\ render_data["left_gun_angle"] = 0 /\ render_data["right_gun_angle"] = 1
    /\ GunDraw(1).pts[2] # GunDraw(1).pts[1]

\* ---- C15: a resize and the input state
\* C15: processing a resize event leaves the input state (the movement,
\* modifier and fire-source flags and the mouse position) unchanged and makes
\* no engine call; of the program's state only the renderer (surface,
\* scale_factor, font) changes.
C15_ResizeLeavesInput ==
    [][(EventStep /\ event'.type = "VIDEORESIZE")
        => /\ ih' = ih
           /\ calls' = <<>>
           /\ engine' = engine
           /\ renderer' = handle_resize(renderer, event')
           /\ UNCHANGED <<pc, running, dt, held, render_data, drawn>>]_vars

\* C15 witness: a resize was processed with a movement key, a modifier or the
\* button held and the pointer moved, and it changed the surface.
C15_Witness ==
    /\ event.type = "VIDEORESIZE"
    /\ ih.w_pressed /\ ih.left_mouse_pressed /\ ih.mouse_pos = <<799, 1>>
    /\ renderer.screen = <<1365, 1024>>

\* ---- C18: the tracking-shot pulse
\* C18: start_shooting_tracking() is always immediately followed by
\* stop_shooting_tracking() within the same step, so that tracking is off
\* whenever a step ends: no update(dt), and no other engine call, happens
\* while tracking is on.
C18_TrackingPulseAtomic ==
    /\ \A i \in 1..Len(calls) :
          calls[i] = start_shooting_tracking
              => i < Len(calls) /\ calls[i + 1] = stop_shooting_tracking
    /\ ~engine.tracking

\* C18 witness: a mouse release has just fired the tracking pulse.
C18_Witness ==
    /\ pc = "handle" /\ event = MouseUp(1)
    /\ start_shooting_tracking \in Range(calls)

\* ---- C19: the modifier modes
\* C19: for each modifier mode the value last sent to the engine is true
\* exactly when the left or the right variant of its key is held.
C19_ModeIffVariantHeld ==
    /\ engine.alt_mode <=> ({"K_LALT", "K_RALT"} \cap held # {})
    /\ engine.boost_mode <=> ({"K_LSHIFT", "K_RSHIFT"} \cap held # {})
    /\ engine.control_mode <=> ({"K_LCTRL", "K_RCTRL"} \cap held # {})

\* ---- C20: the two keys of a direction
\* C20: a direction's movement flag is true exactly when one of its two keys
\* is held, and a tick that does not quit issues the direction's move command
\* exactly when one of its two keys is held.
C20_DirectionIffKeyHeld ==
    /\ ih.w_pressed <=> ({"K_w", "K_UP"} \cap held # {})
    /\ ih.s_pressed <=> ({"K_s", "K_DOWN"} \cap held # {})
    /\ ih.a_pressed <=> ({"K_a", "K_LEFT"} \cap held # {})
    /\ ih.d_pressed <=> ({"K_d", "K_RIGHT"} \cap held # {})
    /\ (pc = "update" /\ running) =>
          \A d \in Directions :
              send_command(d.cmd) \in Range(calls) <=> (d.keys \cap held # {})

====
